---- MODULE Spec2Model ----
(***************************************************************************)
(* A model of ansi-senor (src/src/main.rs): the capture-and-materialize    *)
(* pipeline (spawn, tee stdout, tee stderr, wait, summary, path            *)
(* resolution, directory creation, conversion, write, exit), the path      *)
(* resolver generate_output_path and the duration formatter                *)
(* format_duration.                                                        *)
(*                                                                         *)
(* Byte strings (the pipes, the accumulation buffer, the console) are      *)
(* sequences of integers 0..255.  Path and command strings are sequences   *)
(* of one-character strings.  Formatted durations are TLA+ strings.        *)
(***************************************************************************)
EXTENDS Integers, Sequences, FiniteSets, TLC

VARIABLES
    \* ---- the pipeline: main and run_command_with_capture (Spec) ----
    pc,            \* the step the tool is at
    command,       \* args.command
    custom_output, \* args.output
    tmpdir,        \* the environment: what std::env::temp_dir() returns
    child,         \* "unstarted", "running" or "exited"
    child_status,  \* the ExitStatus of the child once it exited
    wopen,         \* wopen[fd]: the child still holds the write end of fd
    pipe,          \* pipe[fd]: the bytes in the pipe, not yet read
    pending,       \* the write the child is blocked in, if any
    sent,          \* sent[fd]: every byte the child has written to fd
    line,          \* the bytes read since the last line feed (split's buffer)
    output_buffer, \* the accumulation buffer
    console,       \* console[sink]: the bytes echoed to the tool's own sink
    taken,         \* the stream each accumulated line was read from, in order
    exit_code,     \* the i32 run_command_with_capture returns
    output_text,   \* the String run_command_with_capture returns
    printed,       \* what main printed after the capture, in order
    output_path,   \* the resolved path
    dirs,          \* the directories create_dir_all was asked to create
    html_content,  \* the markup the conversion returned
    written,       \* the file fs::write wrote
    tool_exit,     \* the exit code of the tool itself
    failed_at,     \* the step whose error ended the run
    \* ---- format_duration (SpecDuration) ----
    d_pc,          \* "call" before format_duration ran, "done" after
    duration,      \* the Duration passed in: [secs, millis]
    d_result,      \* the String returned ("" before the call)
    \* ---- generate_output_path, two invocations of the tool (SpecPath) ----
    g_run,         \* the run in progress: 1, then 2
    g_pc,          \* g_pc[r]: "call" / "done" for run r
    g_command,     \* g_command[r]: args.command of run r
    g_text,        \* g_text[r]: output_text of run r
    g_custom,      \* g_custom[r]: args.output of run r (None or a path)
    g_tmp,         \* g_tmp[r]: what std::env::temp_dir() returned in run r
    g_other,       \* g_other[r]: exit code, elapsed seconds and theme of run r
    g_path         \* g_path[r]: the PathBuf returned (empty before the call)

pvars == <<pc, command, custom_output, tmpdir, child, child_status, wopen, pipe,
           pending, sent, line, output_buffer, console, taken, exit_code,
           output_text, printed, output_path, dirs, html_content, written,
           tool_exit, failed_at>>
inputs == <<command, custom_output, tmpdir>>
childvars == <<child, child_status, wopen, pipe, pending, sent>>
teevars == <<line, output_buffer, console, taken>>
mainvars == <<exit_code, output_text, printed, output_path, dirs, html_content,
              written>>
dvars == <<d_pc, duration, d_result>>
gvars == <<g_run, g_pc, g_command, g_text, g_custom, g_tmp, g_other, g_path>>

\* Option<T>: None is the empty sequence, Some(x) the one-element sequence.
None == <<>>
Some(x) == <<x>>
IsSome(o) == o # <<>>
Unwrap(o) == o[1]

(***************************************************************************)
(* Bounds of the model.                                                    *)
(***************************************************************************)
MaxSecs == 3700     \* elapsed whole seconds range over 0..MaxSecs
MaxWord == 3        \* length of the program name in a command
MaxOut == 3         \* bytes the child writes to its stdout
MaxErr == 2         \* bytes the child writes to its stderr
PipeCap == 1        \* capacity of a pipe's kernel buffer, in bytes

(***************************************************************************)
(* format_duration (main.rs 215-237)                                       *)
(***************************************************************************)
Digit == <<"0", "1", "2", "3", "4", "5", "6", "7", "8", "9">>

\* format!("{}", n) for an unsigned integer: its decimal digits.
RECURSIVE Decimal(_)
Decimal(n) == IF n < 10 THEN Digit[n + 1]
              ELSE Decimal(n \div 10) \o Digit[(n % 10) + 1]

\* Duration::as_secs: the whole seconds, the sub-second part dropped.
as_secs(d) == d.secs

\* parts.join("")
RECURSIVE Concat(_)
Concat(parts) == IF parts = <<>> THEN "" ELSE Head(parts) \o Concat(Tail(parts))

format_duration(d) ==
    LET secs    == as_secs(d)
        hours   == secs \div 3600
        minutes == (secs % 3600) \div 60
        seconds == secs % 60
        parts1  == IF hours > 0 THEN <<Decimal(hours) \o "h">> ELSE <<>>
        parts2  == IF minutes > 0 THEN Append(parts1, Decimal(minutes) \o "m")
                   ELSE parts1
        parts3  == IF seconds > 0 \/ parts2 = <<>>
                   THEN Append(parts2, Decimal(seconds) \o "s")
                   ELSE parts2
    IN  IF parts3 = <<>> THEN " took < 1s"
        ELSE " took " \o Concat(parts3)

Durations == [secs : 0..MaxSecs, millis : {0, 999}]

DStart(ds) == /\ d_pc = "call"
              /\ duration \in ds
              /\ d_result = ""

\* main.rs 79: format_duration(elapsed)
FormatDuration ==
    /\ d_pc = "call"
    /\ d_result' = format_duration(duration)
    /\ d_pc' = "done"
    /\ UNCHANGED <<duration, pvars, gvars>>

(***************************************************************************)
(* Strings and paths (std::path::PathBuf, lexical operations only)         *)
(***************************************************************************)
Last(s) == s[Len(s)]

\* All strings of length 1..n over the alphabet cs.
StringsUpTo(cs, n) == UNION {[1..k -> cs] : k \in 1..n}

\* [String]::join(sep)
RECURSIVE join(_, _)
join(words, sep) ==
    IF words = <<>> THEN <<>>
    ELSE IF Len(words) = 1 THEN Head(words)
    ELSE Head(words) \o sep \o join(Tail(words), sep)

\* str::replace(from, to) for single characters
RECURSIVE replace(_, _, _)
replace(s, from, to) ==
    IF s = <<>> THEN <<>>
    ELSE <<IF Head(s) = from THEN to ELSE Head(s)>>
         \o replace(Tail(s), from, to)

\* Path::is_absolute on Unix
is_absolute(p) == p # <<>> /\ Head(p) = "/"

\* PathBuf::join / push: an absolute argument replaces the base.
path_join(base, p) ==
    IF is_absolute(p) THEN p
    ELSE IF base = <<>> THEN p
    ELSE IF Last(base) = "/" THEN base \o p
    ELSE base \o <<"/">> \o p

\* The pieces of p between separators, empty pieces included.
RECURSIVE SplitSep(_, _)
SplitSep(p, cur) ==
    IF p = <<>> THEN <<cur>>
    ELSE IF Head(p) = "/" THEN <<cur>> \o SplitSep(Tail(p), <<>>)
    ELSE SplitSep(Tail(p), Append(cur, Head(p)))

\* Path::components without the root: repeated separators and "." pieces
\* are dropped, ".." pieces are kept.
components(p) ==
    SelectSeq(SplitSep(p, <<>>), LAMBDA c : c # <<>> /\ c # <<".">>)

\* Path::file_name: the final component, unless it is "..".
file_name(p) ==
    LET cs == components(p)
    IN  IF cs = <<>> \/ Last(cs) = <<".", ".">> THEN None ELSE Some(Last(cs))

\* Path::parent: the path without its final component.
parent(p) ==
    LET cs == components(p)
    IN  IF cs = <<>> THEN None
        ELSE Some([abs |-> is_absolute(p),
                   parts |-> SubSeq(cs, 1, Len(cs) - 1)])

\* The directory a path names once its ".." components are resolved.
RECURSIVE Resolved(_, _)
Resolved(cs, acc) ==
    IF cs = <<>> THEN acc
    ELSE IF Head(cs) = <<".", ".">>
         THEN Resolved(Tail(cs), IF acc = <<>> THEN <<>>
                                 ELSE SubSeq(acc, 1, Len(acc) - 1))
         ELSE Resolved(Tail(cs), Append(acc, Head(cs)))

\* p names a file strictly inside directory dir (both absolute).
LiesUnder(dir, p) ==
    LET d == Resolved(components(dir), <<>>)
        q == Resolved(components(p), <<>>)
    IN  /\ is_absolute(p)
        /\ Len(q) > Len(d)
        /\ SubSeq(q, 1, Len(d)) = d

(***************************************************************************)
(* generate_output_path (main.rs 196-213)                                  *)
(***************************************************************************)
\* md5::compute and format!("{:x}", digest)[..8] belong to the md5 crate:
\* a deterministic function of the bytes whose value is 8 hexadecimal
\* characters.  The 8 characters are kept as one opaque token that names
\* the hashed bytes; it contains no separator and no space.
md5_hex8(bytes) == <<"md5[..8]" \o ToString(bytes)>>

AnsiSenor == <<"a", "n", "s", "i", "-", "s", "e", "n", "o", "r">>
DotHtml == <<".", "h", "t", "m", "l">>

\* std::env::temp_dir() reads the process environment (TMPDIR).
temp_dir == tmpdir

\* Mutant: the override is ignored and the derived path is always used.
generate_output_path_no_override(cmd, text, custom) ==
    LET filename == replace(join(cmd, <<" ">>), " ", "-") \o <<"-">>
                    \o md5_hex8(text) \o DotHtml
    IN  path_join(path_join(temp_dir, AnsiSenor), filename)

\* Mutant: the elapsed seconds of the run are part of the derived name.
generate_output_path_stamped(cmd, text, custom) ==
    IF IsSome(custom) THEN Unwrap(custom)
    ELSE LET filename == replace(join(cmd, <<" ">>), " ", "-") \o <<"-">>
                         \o md5_hex8(text)
                         \o <<ToString(g_other[g_run].elapsed)>> \o DotHtml
         IN  path_join(path_join(temp_dir, AnsiSenor), filename)

generate_output_path(cmd, text, custom) ==
    IF IsSome(custom) THEN Unwrap(custom)
    ELSE LET hash8        == md5_hex8(text)
             command_name == replace(join(cmd, <<" ">>), " ", "-")
             filename     == command_name \o <<"-">> \o hash8 \o DotHtml
         IN  path_join(path_join(temp_dir, AnsiSenor), filename)

\* ---- inputs ----
\* Program names: a plain name, or a path with separators and dots, ending
\* in the name of the executable.
ProgChars == {"a", "/", "."}
Programs == {w \in StringsUpTo(ProgChars, MaxWord) : Last(w) = "a"}
ArgLists == {<<>>, <<<<"a">>>>, <<<<"a", " ", "a">>>>}
Commands == {<<p>> \o as : p \in Programs, as \in ArgLists}
Texts == {<<>>, <<10>>, <<97, 10>>, <<97, 10, 10>>}
TempDirs == {<<"/", "t">>, <<"/", "v", "/">>}
CustomOutputs == {None, Some(<<"o", ".", "h", "t", "m", "l">>)}
Others == {[exit_code |-> 0, elapsed |-> 0, theme |-> "Dark"],
           [exit_code |-> 7, elapsed |-> 65, theme |-> "Light"]}
Runs == {1, 2}

GStart(cmds, texts, customs, others) ==
    /\ g_run = 1
    /\ g_pc = [r \in Runs |-> "call"]
    /\ \E c \in cmds, t \in texts :
          /\ g_command = [r \in Runs |-> c]
          /\ g_text = [r \in Runs |-> t]
    /\ g_custom \in [Runs -> customs]
    /\ g_tmp = [r \in Runs |-> <<>>]
    /\ g_other \in [Runs -> others]
    /\ g_path = [r \in Runs |-> <<>>]

\* main.rs 87: generate_output_path(&args.command, &output_text, args.output)
\* in the run in progress.
GenerateOutputPath ==
    /\ g_pc[g_run] = "call"
    /\ g_path' = [g_path EXCEPT ![g_run] =
                    generate_output_path(g_command[g_run], g_text[g_run],
                                         g_custom[g_run])]
    /\ g_tmp' = [g_tmp EXCEPT ![g_run] = temp_dir]
    /\ g_pc' = [g_pc EXCEPT ![g_run] = "done"]
    /\ UNCHANGED <<g_run, g_command, g_text, g_custom, g_other, pvars, dvars>>

\* The tool is started again, in an environment of its own.
Rerun ==
    /\ g_run = 1
    /\ g_pc[1] = "done"
    /\ g_run' = 2
    /\ tmpdir' \in TempDirs
    /\ UNCHANGED <<g_pc, g_command, g_text, g_custom, g_tmp, g_other, g_path,
                   dvars, pc, command, custom_output, childvars, teevars,
                   mainvars, tool_exit, failed_at>>

(***************************************************************************)
(* run_command_with_capture (main.rs 140-194) and main (main.rs 60-138)    *)
(***************************************************************************)
LF == 10
Fds == {"stdout", "stderr"}

\* The bytes a child writes: line feed, 'a', and 0xFF (never valid UTF-8).
Bytes == {LF, 97, 255}
MaxBytes == [stdout |-> MaxOut, stderr |-> MaxErr]

\* ExitStatus: code is Some(n) for a normal exit, None after a signal.
ExitStatuses == {[code |-> Some(0)], [code |-> Some(7)], [code |-> None]}

\* String::from_utf8_lossy(..).to_string(), as the UTF-8 bytes of the String:
\* ASCII and well-formed two-byte sequences are kept, any other byte is
\* replaced by U+FFFD (EF BF BD).  (Bytes holds no lead byte of a three- or
\* four-byte sequence.)
RECURSIVE from_utf8_lossy(_)
from_utf8_lossy(bs) ==
    IF bs = <<>> THEN <<>>
    ELSE LET b == Head(bs)
         IN  IF b < 128 THEN <<b>> \o from_utf8_lossy(Tail(bs))
             ELSE IF b \in 194..223 /\ Len(bs) >= 2 /\ bs[2] \in 128..191
                  THEN <<b, bs[2]>> \o from_utf8_lossy(SubSeq(bs, 3, Len(bs)))
             ELSE <<239, 191, 189>> \o from_utf8_lossy(Tail(bs))

\* Mutant: a missing code counts as success.
unwrap_or_0(code) == IF IsSome(code) THEN Unwrap(code) ELSE 0

\* status.code().unwrap_or(1)
unwrap_or_1(code) == IF IsSome(code) THEN Unwrap(code) ELSE 1

\* std::process::exit(code): the low 8 bits reach the parent.
process_exit(code) == code % 256

\* Mutant: stderr is drained first.
tee_fd_swapped(phase) == IF phase = "tee_stdout" THEN "stderr" ELSE "stdout"

\* Mutant: the first phase drains whichever stream has data.
tee_fd_ready(phase) ==
    IF phase = "tee_stdout"
    THEN (IF pipe["stdout"] = <<>> /\ pipe["stderr"] # <<>>
          THEN "stderr" ELSE "stdout")
    ELSE "stderr"

\* The stream drained in each tee phase: stdout first, then stderr.
tee_fd(phase) == IF phase = "tee_stdout" THEN "stdout" ELSE "stderr"

\* The step after a tee phase.
after_tee(phase) == IF phase = "tee_stdout" THEN "tee_stderr" ELSE "wait"

\* main.rs 161 / 178: whether the line terminator is echoed.
echo_newline(l, buf) == l # <<>> \/ buf = <<>> \/ Last(buf) # LF

\* main.rs 160-163: what one line adds to the echo sink.
echo_bytes(l, buf) == l \o (IF echo_newline(l, buf) THEN <<LF>> ELSE <<>>)

\* Mutant: an empty line adds nothing.
buffer_bytes_skip_empty(l) == IF l = <<>> THEN <<>> ELSE l \o <<LF>>

\* main.rs 166-167: what one line adds to the accumulation buffer.
buffer_bytes(l) == l \o <<LF>>

\* Mutant: a conversion error is ignored and the run goes on.
on_error_ignore_convert(step) == IF step = "convert" THEN "write" ELSE "failed"

\* The `?` operator: an error at any step ends the run.
on_error(step) == "failed"

\* ansi_to_html::convert belongs to the ansi-to-html crate: its markup is a
\* function of the text.
convert(text) == [markup_of |-> text]

PipelineCommands == {<<<<"a">>>>, <<<<"/", "a">>, <<"a", " ", "a">>>>}
PipelineCustom == {None, Some(<<"o", ".", "h", "t", "m", "l">>)}

PStart(cmds, customs, tmps) ==
    /\ pc = "spawn"
    /\ command \in cmds
    /\ custom_output \in customs
    /\ tmpdir \in tmps
    /\ child = "unstarted"
    /\ child_status = None
    /\ wopen = [fd \in Fds |-> FALSE]
    /\ pipe = [fd \in Fds |-> <<>>]
    /\ pending = None
    /\ sent = [fd \in Fds |-> <<>>]
    /\ line = <<>>
    /\ output_buffer = <<>>
    /\ console = [fd \in Fds |-> <<>>]
    /\ taken = <<>>
    /\ exit_code = 0
    /\ output_text = <<>>
    /\ printed = <<>>
    /\ output_path = None
    /\ dirs = {}
    /\ html_content = None
    /\ written = None
    /\ tool_exit = None
    /\ failed_at = ""

ToolAlive == pc \notin {"exited", "failed"}

\* ---- the child process ----
\* The child is followed while the tool runs.  It writes at most
\* MaxBytes[fd] bytes to fd.
CanWrite(fd) ==
    /\ child = "running"
    /\ ToolAlive
    /\ pending = None
    /\ wopen[fd]
    /\ Len(sent[fd]) < MaxBytes[fd]

\* write(2) with room in the pipe: the byte is in the pipe at once.
ChildWrite(fd, b) ==
    /\ CanWrite(fd)
    /\ Len(pipe[fd]) < PipeCap
    /\ pipe' = [pipe EXCEPT ![fd] = Append(@, b)]
    /\ sent' = [sent EXCEPT ![fd] = Append(@, b)]
    /\ UNCHANGED <<dvars, gvars, pc, inputs, child, child_status, wopen,
                   pending, teevars, mainvars, tool_exit, failed_at>>

\* write(2) on a full pipe: the child blocks in the call.
ChildBlock(fd, b) ==
    /\ CanWrite(fd)
    /\ Len(pipe[fd]) >= PipeCap
    /\ pending' = Some([fd |-> fd, byte |-> b])
    /\ UNCHANGED <<dvars, gvars, pc, inputs, child, child_status, wopen, pipe,
                   sent, teevars, mainvars, tool_exit, failed_at>>

\* The blocked write completes once the reader has made room.
ChildUnblock ==
    /\ child = "running"
    /\ ToolAlive
    /\ IsSome(pending)
    /\ LET w == Unwrap(pending)
       IN  /\ Len(pipe[w.fd]) < PipeCap
           /\ pipe' = [pipe EXCEPT ![w.fd] = Append(@, w.byte)]
           /\ sent' = [sent EXCEPT ![w.fd] = Append(@, w.byte)]
    /\ pending' = None
    /\ UNCHANGED <<dvars, gvars, pc, inputs, child, child_status, wopen,
                   teevars, mainvars, tool_exit, failed_at>>

\* The child closes one of its streams and keeps running.
ChildClose(fd) ==
    /\ child = "running"
    /\ ToolAlive
    /\ pending = None
    /\ wopen[fd]
    /\ wopen' = [wopen EXCEPT ![fd] = FALSE]
    /\ UNCHANGED <<dvars, gvars, pc, inputs, child, child_status, pipe,
                   pending, sent, teevars, mainvars, tool_exit, failed_at>>

\* The child terminates (exit, or a fatal signal it raises): both write
\* ends close.
ChildExit(st) ==
    /\ child = "running"
    /\ ToolAlive
    /\ pending = None
    /\ child' = "exited"
    /\ child_status' = Some(st)
    /\ wopen' = [fd \in Fds |-> FALSE]
    /\ UNCHANGED <<dvars, gvars, pc, inputs, pipe, pending, sent, teevars,
                   mainvars, tool_exit, failed_at>>

\* ---- the tool ----
\* An error at step `step` (main.rs 150, 158-164, 175-181, 188, 92, 97, 132).
Fallible == {"spawn", "tee_stdout", "tee_stderr", "wait", "mkdir", "convert",
             "write"}

StepFails ==
    /\ pc \in Fallible
    /\ pc = "mkdir" => IsSome(parent(Unwrap(output_path)))
    /\ pc' = on_error(pc)
    /\ failed_at' = pc
    /\ tool_exit' = IF on_error(pc) = "failed" THEN Some(1) ELSE tool_exit
    /\ UNCHANGED <<dvars, gvars, inputs, childvars, teevars, mainvars>>

\* main.rs 144-150: Command::new(program)...spawn()
Spawn ==
    /\ pc = "spawn"
    /\ child' = "running"
    /\ wopen' = [fd \in Fds |-> TRUE]
    /\ pc' = "tee_stdout"
    /\ UNCHANGED <<dvars, gvars, inputs, child_status, pipe, pending, sent,
                   teevars, mainvars, tool_exit, failed_at>>

\* One line handed out by reader.split(b'\n'): echo, then accumulate.
EmitLine(fd, l) ==
    /\ console' = [console EXCEPT ![fd] = @ \o echo_bytes(l, output_buffer)]
    /\ output_buffer' = output_buffer \o buffer_bytes(l)
    /\ taken' = Append(taken, fd)

\* The reader takes the next byte of the stream it drains; a line feed
\* completes a line.
TeeRead ==
    /\ pc \in {"tee_stdout", "tee_stderr"}
    /\ LET fd == tee_fd(pc)
       IN  /\ pipe[fd] # <<>>
           /\ pipe' = [pipe EXCEPT ![fd] = Tail(@)]
           /\ IF Head(pipe[fd]) = LF
              THEN EmitLine(fd, line) /\ line' = <<>>
              ELSE /\ line' = Append(line, Head(pipe[fd]))
                   /\ UNCHANGED <<output_buffer, console, taken>>
    /\ UNCHANGED <<dvars, gvars, pc, inputs, child, child_status, wopen,
                   pending, sent, mainvars, tool_exit, failed_at>>

\* End of stream: every write end is closed and the pipe is empty.  A final
\* partial line is handed out, and the loop ends.
TeeEof ==
    /\ pc \in {"tee_stdout", "tee_stderr"}
    /\ LET fd == tee_fd(pc)
       IN  /\ pipe[fd] = <<>>
           /\ ~wopen[fd]
           /\ IF line # <<>>
              THEN EmitLine(fd, line)
              ELSE UNCHANGED <<output_buffer, console, taken>>
    /\ line' = <<>>
    /\ pc' = after_tee(pc)
    /\ UNCHANGED <<dvars, gvars, inputs, childvars, mainvars, tool_exit,
                   failed_at>>

\* main.rs 188-193: child.wait(), the exit code, the lossy text.
Wait ==
    /\ pc = "wait"
    /\ child = "exited"
    /\ exit_code' = unwrap_or_1(Unwrap(child_status).code)
    /\ output_text' = from_utf8_lossy(output_buffer)
    /\ pc' = "summary"
    /\ UNCHANGED <<dvars, gvars, inputs, childvars, teevars, printed,
                   output_path, dirs, html_content, written, tool_exit,
                   failed_at>>

\* main.rs 74-84: the summary block.
Summary ==
    /\ pc = "summary"
    /\ printed' = Append(printed, "summary")
    /\ pc' = "resolve"
    /\ UNCHANGED <<dvars, gvars, inputs, childvars, teevars, exit_code,
                   output_text, output_path, dirs, html_content, written,
                   tool_exit, failed_at>>

\* main.rs 87
Resolve ==
    /\ pc = "resolve"
    /\ output_path' = Some(generate_output_path(command, output_text,
                                                custom_output))
    /\ pc' = "mkdir"
    /\ UNCHANGED <<dvars, gvars, inputs, childvars, teevars, exit_code,
                   output_text, printed, dirs, html_content, written,
                   tool_exit, failed_at>>

\* main.rs 90-93
Mkdir ==
    /\ pc = "mkdir"
    /\ dirs' = dirs \cup {d \in {parent(Unwrap(output_path))} : IsSome(d)}
    /\ pc' = "convert"
    /\ UNCHANGED <<dvars, gvars, inputs, childvars, teevars, exit_code,
                   output_text, printed, output_path, html_content, written,
                   tool_exit, failed_at>>

\* main.rs 96-97
Convert ==
    /\ pc = "convert"
    /\ html_content' = Some(convert(output_text))
    /\ pc' = "write"
    /\ UNCHANGED <<dvars, gvars, inputs, childvars, teevars, exit_code,
                   output_text, printed, output_path, dirs, written,
                   tool_exit, failed_at>>

\* main.rs 99-132
Write ==
    /\ pc = "write"
    /\ written' = Some([path |-> Unwrap(output_path),
                        title |-> join(command, <<" ">>),
                        body |-> html_content])
    /\ pc' = "finish"
    /\ UNCHANGED <<dvars, gvars, inputs, childvars, teevars, exit_code,
                   output_text, printed, output_path, dirs, html_content,
                   tool_exit, failed_at>>

\* main.rs 134-137
Finish ==
    /\ pc = "finish"
    /\ printed' = Append(printed, "saved")
    /\ tool_exit' = Some(process_exit(exit_code))
    /\ pc' = "exited"
    /\ UNCHANGED <<dvars, gvars, inputs, childvars, teevars, exit_code,
                   output_text, output_path, dirs, html_content, written,
                   failed_at>>

(***************************************************************************)
(* Specifications                                                          *)
(***************************************************************************)
vars == <<pvars, dvars, gvars>>

\* The parts a specification leaves alone start from one fixed input.
PIdle(tmps) == PStart({<<<<"a">>>>}, {None}, tmps)
DIdle == DStart({[secs |-> 0, millis |-> 0]})
GIdle == GStart({<<<<"a">>>>}, {<<>>}, {None},
                {[exit_code |-> 0, elapsed |-> 0, theme |-> "Dark"]})

\* The pipeline: the tool and the child it spawns.
Init == /\ PStart(PipelineCommands, PipelineCustom, {<<"/", "t">>})
        /\ DIdle
        /\ GIdle

ChildNext ==
    \/ \E fd \in Fds, b \in Bytes : ChildWrite(fd, b)
    \/ \E fd \in Fds, b \in Bytes : ChildBlock(fd, b)
    \/ ChildUnblock
    \/ \E fd \in Fds : ChildClose(fd)
    \/ \E st \in ExitStatuses : ChildExit(st)

ToolProgress ==
    \/ Spawn
    \/ TeeRead
    \/ TeeEof
    \/ Wait
    \/ Summary
    \/ Resolve
    \/ Mkdir
    \/ Convert
    \/ Write
    \/ Finish

Next == ChildNext \/ ToolProgress \/ StepFails

Spec == Init /\ [][Next]_vars

\* format_duration on every duration of the bound.
InitDuration == PIdle({<<"/", "t">>}) /\ DStart(Durations) /\ GIdle
NextDuration == FormatDuration
SpecDuration == InitDuration /\ [][NextDuration]_vars

\* generate_output_path in two runs of the tool on the same command with
\* the same captured output.
InitPath == /\ PIdle(TempDirs)
            /\ DIdle
            /\ GStart(Commands, Texts, CustomOutputs, Others)
NextPath == GenerateOutputPath \/ Rerun
SpecPath == InitPath /\ [][NextPath]_vars

(***************************************************************************)
(* Properties                                                              *)
(***************************************************************************)
\* The lines of a byte stream: the pieces between line feeds, a final piece
\* without line feed included when it is not empty.
RECURSIVE LinesOf(_, _)
LinesOf(bs, cur) ==
    IF bs = <<>> THEN (IF cur = <<>> THEN <<>> ELSE <<cur>>)
    ELSE IF Head(bs) = LF THEN <<cur>> \o LinesOf(Tail(bs), <<>>)
    ELSE LinesOf(Tail(bs), Append(cur, Head(bs)))

\* Every line followed by exactly one line feed, in order.
RECURSIVE Terminated(_)
Terminated(ls) ==
    IF ls = <<>> THEN <<>> ELSE Head(ls) \o <<LF>> \o Terminated(Tail(ls))

Range(f) == {f[i] : i \in DOMAIN f}
IsAscii(bs) == \A i \in DOMAIN bs : bs[i] < 128

AfterCapture == {"summary", "resolve", "mkdir", "convert", "write", "finish",
                 "exited"}
\* run_command_with_capture has returned.
Captured == pc \in AfterCapture \/ (pc = "failed" /\ failed_at \in AfterCapture)
\* Both tee loops have ended.
Drained == pc = "wait" \/ (pc = "failed" /\ failed_at = "wait") \/ Captured

\* C1: when the tool has run to its end, its exit code is the child's exit
\* code if the child reported one, and 1 if it did not (a signal).
C1_ExitCode ==
    pc = "exited" =>
        LET code == Unwrap(child_status).code
        IN  tool_exit = Some(IF IsSome(code) THEN Unwrap(code) ELSE 1)

C1_Witness ==
    /\ pc = "exited"
    /\ Unwrap(child_status).code = None
    /\ tool_exit = Some(1)

\* C2: the bytes echoed to the console during the capture are, in order, the
\* bytes appended to the accumulation buffer (every line followed by one
\* line terminator).
C2_EchoIsBuffer == console["stdout"] \o console["stderr"] = output_buffer

\* C3 as claimed: with nothing on stderr, the text returned is the child's
\* stdout lines, each followed by one line feed.
C3_TextIsLines ==
    (Captured /\ sent["stderr"] = <<>>) =>
        output_text = Terminated(LinesOf(sent["stdout"], <<>>))

\* C3 as amended: with nothing on stderr, the accumulated bytes are the
\* child's stdout lines, each followed by one line feed, and the text returned
\* is their lossy UTF-8 decoding: the same bytes when the output is ASCII,
\* U+FFFD in place of every invalid byte otherwise.
C3_TextIsLossyLines ==
    (Captured /\ sent["stderr"] = <<>>) =>
        LET expect == Terminated(LinesOf(sent["stdout"], <<>>))
        IN  /\ output_buffer = expect
            /\ output_text = from_utf8_lossy(expect)
            /\ IsAscii(sent["stdout"]) => output_text = expect
            /\ sent["stdout"] = <<>> => output_text = <<>>

C3_Witness ==
    /\ Captured
    /\ sent["stderr"] = <<>>
    /\ Len(sent["stdout"]) >= 2
    /\ LF \in Range(sent["stdout"])
    /\ 255 \in Range(sent["stdout"])
    /\ Last(sent["stdout"]) = 97
    /\ Last(output_text) = LF

\* C4: an error ends the run: nothing of a later step has happened.  The
\* file is written only with the markup of a successful conversion, "saved"
\* is printed only after the write, and the tool exits with the child's code
\* only at the end of a full run; a conversion error comes after the summary
\* and leaves no file.
C4_ErrorsAbort ==
    /\ IsSome(written) => /\ IsSome(html_content)
                          /\ Unwrap(written).body = html_content
    /\ "saved" \in Range(printed) => IsSome(written)
    /\ IsSome(tool_exit) => pc \in {"exited", "failed"}
    /\ pc = "exited" => /\ printed = <<"summary", "saved">>
                        /\ IsSome(written)
                        /\ failed_at = ""
    /\ pc = "failed" =>
        /\ tool_exit = Some(1)
        /\ written = None
        /\ "saved" \notin Range(printed)
        /\ failed_at = "spawn" => child = "unstarted"
        /\ failed_at \in {"spawn", "tee_stdout", "tee_stderr", "wait"} =>
              /\ printed = <<>>
              /\ output_path = None
        /\ failed_at = "tee_stdout" => console["stderr"] = <<>>
        /\ failed_at \in {"spawn", "tee_stdout", "tee_stderr", "wait",
                         "mkdir"} => dirs = {}
        /\ failed_at # "write" => html_content = None
        /\ failed_at = "convert" => printed = <<"summary">>

C4_Witness ==
    /\ pc = "failed"
    /\ failed_at = "convert"
    /\ console["stdout"] # <<>>
    /\ printed = <<"summary">>
    /\ written = None

\* C6: with an explicit output path, the resolved path is that path, for
\* every command and captured output, and the document is written there.
C6_OverrideVerbatim ==
    IsSome(custom_output) =>
        /\ IsSome(output_path) => output_path = custom_output
        /\ IsSome(written) => Unwrap(written).path = Unwrap(custom_output)

C6_Witness ==
    /\ pc = "exited"
    /\ IsSome(custom_output)
    /\ output_text # <<>>
    /\ Unwrap(written).path = Unwrap(custom_output)

\* C9: all stdout lines are accumulated before any stderr line, each stream's
\* lines in the order written; nothing is read from stderr before stdout
\* reported end of stream; the wait starts after both streams are drained.
C9_StdoutThenStderr ==
    /\ \A i, j \in DOMAIN taken :
          (i < j /\ taken[i] = "stderr") => taken[j] = "stderr"
    /\ (Len(sent["stderr"]) > Len(pipe["stderr"]) \/ "stderr" \in Range(taken))
          => (~wopen["stdout"] /\ pipe["stdout"] = <<>>)
    /\ Drained =>
          /\ \A fd \in Fds : ~wopen[fd] /\ pipe[fd] = <<>>
          /\ line = <<>>
          /\ output_buffer = Terminated(LinesOf(sent["stdout"], <<>>))
                             \o Terminated(LinesOf(sent["stderr"], <<>>))

C9_Witness ==
    /\ pc = "wait"
    /\ taken = <<"stdout", "stdout", "stderr">>
    /\ Len(sent["stderr"]) = MaxErr

\* The stall: the child is blocked writing to a full stderr pipe while
\* its stdout is open and empty, and the tool is blocked reading stdout.
Stalled ==
    /\ pc = "tee_stdout"
    /\ child = "running"
    /\ IsSome(pending)
    /\ Unwrap(pending).fd = "stderr"
    /\ Len(pipe["stderr"]) >= PipeCap
    /\ wopen["stdout"]
    /\ pipe["stdout"] = <<>>

\* C10: in the stall neither the child nor the tool can take a step, the
\* tool has not reached the wait, has written no file and has not exited.
C10_StallBlocksBoth ==
    Stalled => /\ ~ENABLED ChildNext
               /\ ~ENABLED ToolProgress
               /\ written = None
               /\ tool_exit = None

C10_Witness == Stalled /\ sent["stdout"] # <<>>

\* The text claimed for n whole seconds.
C8_Expected(n) ==
    IF n = 0 THEN " took < 1s"
    ELSE " took "
         \o (IF n \div 3600 > 0 THEN Decimal(n \div 3600) \o "h" ELSE "")
         \o (IF (n % 3600) \div 60 > 0 THEN Decimal((n % 3600) \div 60) \o "m"
             ELSE "")
         \o (IF n % 60 > 0 THEN Decimal(n % 60) \o "s" ELSE "")

\* C8: format_duration returns " took < 1s" for 0 whole seconds, and
\* " took " followed by the non-zero components <h>h, <m>m, <s>s otherwise.
C8_DurationText == d_pc = "done" => d_result = C8_Expected(duration.secs)

\* Both runs resolved a path without override, from the same command and
\* the same captured output.
BothResolved ==
    /\ \A r \in Runs : g_pc[r] = "done" /\ g_custom[r] = None
    /\ g_command[1] = g_command[2]
    /\ g_text[1] = g_text[2]

C7_UnderTempDir ==
    \A r \in Runs :
        (g_pc[r] = "done" /\ g_custom[r] = None) =>
            /\ LiesUnder(path_join(g_tmp[r], AnsiSenor), g_path[r])
            /\ file_name(g_path[r])
                 = Some(replace(join(g_command[r], <<" ">>), " ", "-")
                        \o <<"-">> \o md5_hex8(g_text[r]) \o DotHtml)

====
